---- MODULE Spec2Model ----
(***************************************************************************)
(* GlucoSync Bridge: the Bluetooth glucose meter managers.                 *)
(*                                                                         *)
(* Three manager classes are modelled, selected by `variant`:              *)
(*   "base"  BluetoothGlucoseMeterManager          (bluetooth/glucose-     *)
(*           meter.ts, Web Bluetooth)                                      *)
(*   "expo"  ExpoBluetoothGlucoseMeterManager      (expo-glucose-meter.ts) *)
(*   "cross" CrossPlatformBluetoothGlucoseMeterManager (same file), whose  *)
(*           real backend is one of "expo", "react-native", "web".         *)
(*                                                                         *)
(* Every public method is an async function.  A call runs synchronously    *)
(* up to its first await; each await is one step of the call, completed by *)
(* the transport (success, failure, lost race against a timeout) or by a   *)
(* timer.  Code between two awaits is atomic (JavaScript run to            *)
(* completion), so one action models one such stretch.                     *)
(***************************************************************************)
EXTENDS Integers, Sequences, FiniteSets, TLC

\* ------------------------------------------------------------------ bounds
\* Calls that may be issued in one behaviour.
MaxOps == 4
\* Readings one sync call may collect from notifications.
MaxReadings == 2
\* Iterations of the 100 ms wait loop that make up the overall sync timeout
\* (maxWaitTime / 100 in the source, scaled down).
MaxWaitTicks == 1
\* Calls a behaviour of the fair specification may issue.
MaxLiveOps == 3

\* Call slots: the calls that can be in flight at the same time.
CallSlots == {1, 2}
\* Device ids that exist in the world.
DeviceIds == {1, 2}

\* ------------------------------------------------------- program constants
DefaultReadingCount == 50
DefaultDeviceCount == 3
\* Hours between two mock readings.
MockReadingStep == 4
ExpoMockReadingStep == 1

DISCONNECTED == "disconnected"
SCANNING == "scanning"
CONNECTING == "connecting"
CONNECTED == "connected"
SYNCING == "syncing"
ERROR == "error"

\* mockFailureRate in percent, and the values Math.random() * 100 may take.
FailureRates == {0, 10, 100}
RandomDraws == {0, 50, 99}
MockReadingCounts == {0, 2}
MockDeviceCounts == {0, 2}

VARIABLES
    variant,           \* which manager class
    platform,          \* backend: "mock", "web", "expo", "react-native"
    mockOptions,       \* this.mockOptions
    deviceInfo,        \* this.deviceInfo: Map id -> BluetoothGlucoseMeter
    connectedDevices,  \* keys of this.connectedDevices
    isScanning,        \* this.isScanning
    linkUp,            \* transport side: devices whose GATT link is up
    calls,             \* the async calls in flight, by slot
    last,              \* the event of the last step: a call started or settled
    now,               \* wall clock, hours
    opsLeft,           \* calls that may still be issued
    codec,             \* the measurement codec, exercised on its own
    stream             \* the glucose stream of the Android bridge

config == <<variant, platform, mockOptions>>
\* State of the components that are exercised apart from the manager
side == <<codec, stream>>
vars == <<variant, platform, mockOptions, deviceInfo, connectedDevices,
          isScanning, linkUp, calls, last, now, opsLeft, codec, stream>>

mock == mockOptions.enableMockMode

\* ------------------------------------------------------------ registry
NewDevice == [connectionState |-> DISCONNECTED, lastSync |-> {}]

MapSet(m, k, v) == [x \in (DOMAIN m) \cup {k} |-> IF x = k THEN v ELSE m[x]]

\* The state written to every record of the registry
updateDeviceState_everyRecord(di, id, state) ==
    IF id \in DOMAIN di
    THEN [x \in DOMAIN di |-> [di[x] EXCEPT !.connectionState = state]]
    ELSE di

updateDeviceState(di, id, state) ==
    IF id \in DOMAIN di
    THEN [di EXCEPT ![id].connectionState = state]
    ELSE di

updateDeviceLastSync(di, id, t) ==
    IF id \in DOMAIN di
    THEN [di EXCEPT ![id].lastSync = {t}]
    ELSE di

StateOf(di, id) == IF id \in DOMAIN di THEN di[id].connectionState ELSE "absent"
LastSyncOf(di, id) == IF id \in DOMAIN di THEN di[id].lastSync ELSE {}

getConnectedDevices == {id \in DOMAIN deviceInfo : deviceInfo[id].connectionState = CONNECTED}

\* ------------------------------------------------------------ calls
Idle == [op |-> "idle", dev |-> 0, pc |-> 0, outer |-> "none",
         autoSync |-> FALSE, readings |-> <<>>, recordCount |-> 0,
         ticks |-> 0, found |-> <<>>,
         racpDone |-> FALSE, timedOut |-> FALSE, cut |-> FALSE]

NoOutcome == [op |-> "none", phase |-> "none", slot |-> 0, dev |-> 0,
              result |-> "none",
              error |-> "none", readings |-> <<>>, found |-> <<>>,
              state |-> "none", lastSync |-> {}, started |-> FALSE,
              autoSync |-> FALSE, from |-> "none", fromSync |-> {},
              issuedIn |-> "none",
              racpDone |-> FALSE, timedOut |-> FALSE, cut |-> FALSE,
              handlers |-> FALSE]

InFlight(c) == calls[c].op # "idle"


\* ------------------------------------------------------------ step tables
\* The awaits of a method, in program order.  Consecutive awaits of
\* transport promises between which the method touches no state of the
\* manager and installs or removes no handler are one entry (named after
\* all of them): any of them rejecting has the same effect, and no other
\* call can tell them apart.  kind says what may complete the await:
\*   "transport"   a transport promise: resolves or rejects
\*   "raced"       Promise.race of a transport promise and this.timeout(ms)
\*   "besteffort"  a helper that catches its own errors
\*   "delay"       this.delay(ms): a timer
\*   "wait"        one round of the wait loop: a timer, then the loop test
\*   "window"      a scan window closed by a timer or by an error callback
\* listen: a notification (or discovery) callback of the call is installed
\* while this await is pending.  effect: what the resolved await changes on
\* the transport side.
St(name, kind, listen, effect) ==
    [name |-> name, kind |-> kind, listen |-> listen, effect |-> effect]

baseScanSteps == << St("requestDevice", "raced", FALSE, "found") >>

expoScanSteps ==
    << St("startScan", "transport", FALSE, "none"),
       St("delay(scanTimeout)", "delay", TRUE, "none"),
       St("stopScan", "transport", TRUE, "none") >>

crossScanSteps ==
    CASE platform = "web" -> << St("requestDevice", "raced", FALSE, "found") >>
      [] platform = "expo" -> << St("setTimeout(scanTimeout)", "delay", TRUE, "none") >>
      [] OTHER -> << St("setTimeout(scanTimeout)", "window", TRUE, "none") >>

baseConnectSteps ==
    << St("requestDevice", "transport", FALSE, "none"),
       St("gatt.connect", "raced", FALSE, "linkUp"),
       St("getDeviceInformation", "besteffort", FALSE, "none"),
       St("getPrimaryService, getCharacteristic, readValue", "transport", FALSE, "none") >>

expoConnectSteps ==
    << St("connect", "raced", FALSE, "linkUp"),
       St("discoverServices, discoverCharacteristics", "transport", FALSE, "none"),
       St("getDeviceInformation", "besteffort", FALSE, "none") >>

crossConnectSteps ==
    CASE platform = "web" ->
           << St("requestDevice", "transport", FALSE, "none"),
              St("gatt.connect", "raced", FALSE, "linkUp"),
              St("getDeviceInformationWeb", "besteffort", FALSE, "none") >>
      [] platform = "expo" -> expoConnectSteps
      [] OTHER ->
           << St("connectToDevice", "raced", FALSE, "linkUp"),
              St("discoverAllServicesAndCharacteristics", "transport", FALSE, "none"),
              St("getDeviceInformationBLEPLX", "besteffort", FALSE, "none") >>

\* The sync that registers its handlers only after the records were asked for
baseSyncSteps_lateHandlers ==
    << St("getPrimaryService, getCharacteristic x2, startNotifications x2",
          "transport", FALSE, "none"),
       St("write(reportNumber)", "transport", FALSE, "none"),
       St("delay(1000)", "delay", FALSE, "none"),
       St("write(reportStored)", "transport", FALSE, "none"),
       St("delay(100)", "wait", TRUE, "none"),
       St("stopNotifications x2", "transport", FALSE, "none") >>

baseSyncSteps ==
    << St("getPrimaryService, getCharacteristic x2, startNotifications x2",
          "transport", FALSE, "none"),
       St("write(reportNumber)", "transport", TRUE, "none"),
       St("delay(1000)", "delay", TRUE, "none"),
       St("write(reportStored)", "transport", TRUE, "none"),
       St("delay(100)", "wait", TRUE, "none"),
       St("stopNotifications x2", "transport", FALSE, "none") >>

expoSyncSteps ==
    << St("startNotifications", "transport", FALSE, "none"),
       St("writeCharacteristic", "transport", TRUE, "none"),
       St("delay(5000)", "delay", TRUE, "none"),
       St("stopNotifications", "transport", TRUE, "none") >>

crossSyncSteps ==
    CASE platform = "web" ->
           << St("getPrimaryService, getCharacteristic x2, startNotifications x2",
                 "transport", FALSE, "none"),
              St("write(reportStored)", "transport", TRUE, "none"),
              St("delay(5000)", "delay", TRUE, "none"),
              St("stopNotifications x2", "transport", FALSE, "none") >>
      [] platform = "expo" ->
           << St("getCharacteristic x2, startNotifications", "transport", FALSE, "none"),
              St("writeCharacteristic", "transport", TRUE, "none"),
              St("delay(5000)", "delay", TRUE, "none"),
              St("stopNotifications", "transport", TRUE, "none") >>
      [] OTHER ->
           << St("services, characteristics", "transport", FALSE, "none"),
              St("writeWithResponse", "transport", TRUE, "none"),
              St("delay(5000)", "delay", TRUE, "none") >>

\* Only the backends whose disconnect is awaited have a step; Web
\* Bluetooth's gatt.disconnect() is synchronous.
disconnectSteps ==
    IF platform = "web" THEN << >>
    ELSE << St("disconnect", "transport", FALSE, "linkDown") >>

\* Mock methods await at most this.delay(ms), when simulateDelays is set.
mockSteps(op) ==
    IF mockOptions.simulateDelays /\ op # "disconnect"
    THEN << St("delay", "delay", FALSE, "none") >>
    ELSE << >>

Steps(call) ==
    IF mock THEN mockSteps(call.op)
    ELSE CASE call.op = "scan" ->
                (CASE variant = "base" -> baseScanSteps
                   [] variant = "expo" -> expoScanSteps
                   [] OTHER -> crossScanSteps)
           [] call.op = "connect" ->
                (CASE variant = "base" -> baseConnectSteps
                   [] variant = "expo" -> expoConnectSteps
                   [] OTHER -> crossConnectSteps)
           [] call.op = "sync" ->
                (CASE variant = "base" -> baseSyncSteps
                   [] variant = "expo" -> expoSyncSteps
                   [] OTHER -> crossSyncSteps)
           [] OTHER -> disconnectSteps

Done(call) == call.pc > Len(Steps(call))
CurStep(call) == Steps(call)[call.pc]
Awaiting(c, kinds) ==
    /\ InFlight(c)
    /\ ~Done(calls[c])
    /\ CurStep(calls[c]).kind \in kinds
Listening(call) == call.op # "idle" /\ ~Done(call) /\ CurStep(call).listen

\* The wait loop of syncDevice: readings.length < recordCount and the time
\* since startTime below maxWaitTime.
WaitCond(call) ==
    /\ Len(call.readings) < call.recordCount
    /\ call.ticks < MaxWaitTicks

\* A round of the wait loop in which the elapsed time does not grow
waitRound_noClock(call) == call

\* One round of the wait loop: await this.delay(100), after which
\* Date.now() - startTime has grown.
waitRound(call) == [call EXCEPT !.ticks = @ + 1]

\* Evaluate the loop test on reaching the wait step: leave the loop at once
\* when it is false.
Normalize(call) ==
    IF ~Done(call) /\ CurStep(call).kind = "wait" /\ ~WaitCond(call)
    THEN [call EXCEPT !.pc = @ + 1,
                      !.timedOut = Len(call.readings) < call.recordCount]
    ELSE call


\* ------------------------------------------------------------ outcomes
\* The manager's own state, threaded through the pure operators below.
W(di, cd, sc) == [deviceInfo |-> di, connectedDevices |-> cd, isScanning |-> sc]
Cur == W(deviceInfo, connectedDevices, isScanning)

\* What one atomic stretch of a call leaves behind: the manager state, the
\* call (Idle once settled) and the outcome handed to the caller, if any.
R(w, call, out) == [w |-> w, call |-> call, out |-> out]

\* Whether the notification handlers a call installed are still installed
\* when it leaves its method: those in place at the await that threw, or at
\* the last await of a call that returns.
handlersLeft(call) ==
    LET steps == Steps(call)
    IN IF call.pc = 0 \/ steps = << >> THEN FALSE
       ELSE IF Done(call) THEN steps[Len(steps)].listen
       ELSE CurStep(call).listen

Out(c, call, result, error, readings, w) ==
    [op       |-> IF call.outer # "none" THEN call.outer ELSE call.op,
     phase    |-> call.op,
     slot     |-> c,
     dev      |-> call.dev,
     result   |-> result,
     error    |-> error,
     readings |-> readings,
     found    |-> call.found,
     state    |-> StateOf(w.deviceInfo, call.dev),
     lastSync |-> LastSyncOf(w.deviceInfo, call.dev),
     started  |-> call.pc > 0,
     autoSync |-> call.autoSync,
     from     |-> "none",
     fromSync |-> {},
     issuedIn |-> "none",
     racpDone |-> call.racpDone,
     timedOut |-> call.timedOut,
     cut      |-> call.cut,
     handlers |-> handlersLeft(call)]

Resolve(c, call, readings, w) == R(w, Idle, Out(c, call, "resolved", "none", readings, w))
Reject(c, call, error, w) == R(w, Idle, Out(c, call, "rejected", error, <<>>, w))

NewCall(op, d, autoSync) ==
    [Idle EXCEPT !.op = op, !.dev = d, !.autoSync = autoSync]

\* The event of a call that passed its guards and is now pending on its
\* first await; issuedIn is the registry state of the device at the moment
\* the first transport call was issued.
Started(c, call, issuedIn) ==
    [NoOutcome EXCEPT !.op = call.op, !.phase = call.op, !.slot = c,
                      !.dev = call.dev, !.result = "started", !.started = TRUE,
                      !.autoSync = call.autoSync, !.issuedIn = issuedIn]

\* ------------------------------------------------------------ readings
Reverse(s) == [i \in 1..Len(s) |-> s[Len(s) + 1 - i]]

MGDL == "mg/dL"

Reading(id, timestamp, sequenceNumber, deviceId, value) ==
    [id |-> id, timestamp |-> timestamp, sequenceNumber |-> sequenceNumber,
     deviceId |-> deviceId, value |-> value, unit |-> MGDL]

\* Measurement notifications a meter may send: two glucose records, the
\* later one first, and a context-only record (flags bit 1 unset).
MeasurementNotifications ==
    { [glucosePresent |-> TRUE, seqNum |-> 1, timestamp |-> 2, glucose |-> 100],
      [glucosePresent |-> TRUE, seqNum |-> 2, timestamp |-> 1, glucose |-> 140],
      [glucosePresent |-> FALSE, seqNum |-> 3, timestamp |-> 3, glucose |-> 0] }

\* The reading decoded from a notification, as a sequence of length 0 or 1
\* (null when the glucose concentration is absent).
parseGlucoseMeasurement(value) ==
    IF value.glucosePresent
    THEN << Reading(<<"bluetooth", value.seqNum, value.timestamp>>,
                    value.timestamp, value.seqNum, 0, value.glucose) >>
    ELSE << >>

\* RACP notifications: number of stored records (0x05), and the response
\* code to "report stored records" (0x06, request 0x01): success 0x01 or
\* "no records found" 0x06.
RacpNotifications ==
    { [opCode |-> 5, numberOfRecords |-> 2, requestOpCode |-> 0, responseCode |-> 0],
      [opCode |-> 6, numberOfRecords |-> 0, requestOpCode |-> 1, responseCode |-> 1],
      [opCode |-> 6, numberOfRecords |-> 0, requestOpCode |-> 1, responseCode |-> 6] }

readingCount ==
    IF variant = "expo" THEN mockOptions.mockReadingCount
    ELSE IF mockOptions.mockReadingCount = 0 THEN DefaultReadingCount
    ELSE mockOptions.mockReadingCount

deviceCount ==
    IF variant = "expo" THEN mockOptions.mockDeviceCount
    ELSE IF mockOptions.mockDeviceCount = 0 THEN DefaultDeviceCount
    ELSE mockOptions.mockDeviceCount

\* Math.random() is not seeded (mockSeed is never read): the i-th draw of a
\* call is any number of [0, 1), here in hundredths, along the stream that
\* the first draw r selects.
random(r, i) == (r + 37 * i) % 100

\* Math.round(Math.sin(i * 0.1) * 30) for i = 0..49
Sin30 ==
    << 0, 3, 6, 9, 12, 14, 17, 19, 22, 23, 25, 27, 28, 29, 30, 30, 30, 30,
       29, 28, 27, 26, 24, 22, 20, 18, 15, 13, 10, 7, 4, 1, -2, -5, -8, -11,
       -13, -16, -18, -21, -23, -25, -26, -27, -29, -29, -30, -30, -30, -29 >>

Max(a, b) == IF a >= b THEN a ELSE b
Min(a, b) == IF a <= b THEN a ELSE b

\* Math.max(70, Math.min(300, Math.round(120 + sin(i * 0.1) * 30 +
\* (Math.random() - 0.5) * 40))), in whole mg/dL
mockValue(i, r) ==
    Max(70, Min(300, 120 + Sin30[(i % 50) + 1] + ((random(r, i) - 50) * 40) \div 100))

\* 80 + Math.random() * 120, in whole mg/dL
expoMockValue(i, r) == 80 + (random(r, i + 1) * 120) \div 100

\* The loop of mockSyncDevice: reading i is i steps older than `t`.
mockReadings(d, t, r) ==
    IF variant = "expo"
    THEN [k \in 1..readingCount |->
            Reading(<<"expo-mock-reading", d, k - 1>>,
                    t - (k - 1) * ExpoMockReadingStep, k - 1, d,
                    expoMockValue(k - 1, r))]
    ELSE [k \in 1..readingCount |->
            Reading(<<"mock", d, k - 1>>,
                    t - (k - 1) * MockReadingStep, k, d, mockValue(k - 1, r))]

\* rssi: -40 - i * 10 of the i-th mock device (i from 0; its id is i + 1)
mockRssi(id) == -40 - (id - 1) * 10

\* Math.random() < mockFailureRate
mockFails(r) == r < mockOptions.mockFailureRate


\* ------------------------------------------------------------ scanForDevices
Range(f) == {f[i] : i \in DOMAIN f}

\* deviceInfo.set(device.id, glucoseMeter) for each id: a fresh record.
Register(di, ids) ==
    [x \in (DOMAIN di) \cup ids |-> IF x \in ids THEN NewDevice ELSE di[x]]

mockScanForDevices(c, call, w) ==
    LET ids == 1..deviceCount
    IN Resolve(c, [call EXCEPT !.found = [i \in ids |-> i]], <<>>,
               [w EXCEPT !.deviceInfo = Register(@, ids)])

\* The rest of a real scan once its last await has resolved, then `finally`.
\* The Web Bluetooth scans register the device they were given here; the
\* others registered theirs from the discovery callback.
scanDone(c, call, w) ==
    LET ids == IF variant = "base" \/ platform = "web" THEN Range(call.found) ELSE {}
    IN Resolve(c, call, <<>>,
               [w EXCEPT !.deviceInfo = Register(@, ids), !.isScanning = FALSE])

\* catch: throw "Failed to scan for devices"; finally: isScanning = false.
scanFail(c, call, error, w) ==
    Reject(c, call, error, [w EXCEPT !.isScanning = FALSE])

\* ------------------------------------------------------------ syncDevice
\* The guard of the real syncDevice: the device is in connectedDevices (and,
\* for the Web Bluetooth manager, device.gatt.connected).
syncGuard(d, w) ==
    /\ d \in w.connectedDevices
    /\ variant = "base" => d \in linkUp

syncEnter(d, w) == [w EXCEPT !.deviceInfo = updateDeviceState(@, d, SYNCING)]

\* The end of the try block of a real sync, and `finally` where there is one.
syncDone(c, call, w, t) ==
    LET d == call.dev
        connected == updateDeviceState(w.deviceInfo, d, CONNECTED)
        di == IF variant = "expo" THEN connected
              ELSE updateDeviceLastSync(connected, d, t)
    IN Resolve(c, call, IF call.outer = "connect" THEN <<>> ELSE call.readings,
               [w EXCEPT !.deviceInfo = di])

\* catch of a real sync (and of connectToDevice around an auto-sync), then
\* `finally` where there is one.
syncFail(c, call, error, w, t) ==
    LET d == call.dev
        failed == updateDeviceState(w.deviceInfo, d, ERROR)
        di == CASE variant = "base" -> failed
                [] variant = "expo" -> updateDeviceState(failed, d, CONNECTED)
                [] OTHER -> updateDeviceLastSync(
                                updateDeviceState(failed, d, CONNECTED), d, t)
    IN Reject(c, call, error, [w EXCEPT !.deviceInfo = di])

mockSyncDevice(c, call, w, r, t) ==
    LET d == call.dev
    IN IF variant = "expo"
       THEN IF mockFails(r)
            THEN Reject(c, call, "mockFailed", w)
            ELSE Resolve(c, call, mockReadings(d, t, r), w)
       ELSE Resolve(c, call, Reverse(mockReadings(d, t, r)),
                    [w EXCEPT !.deviceInfo = updateDeviceLastSync(@, d, t)])

\* ------------------------------------------------------------ connectToDevice
\* The end of the try block of a real connect.  With autoSync the Web
\* Bluetooth manager goes on into syncDevice within the same call.
connectDone(c, call, w) ==
    LET d == call.dev
        w2 == [w EXCEPT !.connectedDevices = @ \cup {d},
                        !.deviceInfo = updateDeviceState(@, d, CONNECTED)]
    IN IF variant = "base" /\ call.autoSync
       THEN IF syncGuard(d, w2)
            THEN R(syncEnter(d, w2),
                   [call EXCEPT !.op = "sync", !.outer = "connect", !.pc = 1],
                   NoOutcome)
            ELSE Reject(c, call, "notConnected",
                        [w2 EXCEPT !.deviceInfo = updateDeviceState(@, d, ERROR)])
       ELSE Resolve(c, call, <<>>, w2)

\* connectFail without the catch block's state update
connectFail_keepsState(c, call, error, w) ==
    Reject(c, call, error, w)

connectFail(c, call, error, w) ==
    Reject(c, call, error,
           [w EXCEPT !.deviceInfo = updateDeviceState(@, call.dev, ERROR)])

\* mockConnectToDevice marking the device CONNECTING before the failure draw
mockConnectToDevice_marksFirst(c, call, w, r) ==
    LET d == call.dev
        w2 == [w EXCEPT !.deviceInfo = updateDeviceState(@, d, CONNECTING)]
    IN IF mockFails(r)
       THEN Reject(c, call, "mockFailed", w2)
       ELSE Resolve(c, call, <<>>,
                    [w2 EXCEPT !.deviceInfo = updateDeviceState(@, d, CONNECTED),
                               !.connectedDevices =
                                   IF variant = "expo" THEN @ \cup {d} ELSE @])

mockConnectToDevice(c, call, w, r) ==
    LET d == call.dev
    IN IF mockFails(r)
       THEN Reject(c, call, "mockFailed", w)
       ELSE Resolve(c, call, <<>>,
                    [w EXCEPT !.deviceInfo = updateDeviceState(@, d, CONNECTED),
                              !.connectedDevices =
                                  IF variant = "expo" THEN @ \cup {d} ELSE @])

\* ------------------------------------------------------------ disconnectDevice
Disconnected(d, w) ==
    [w EXCEPT !.connectedDevices = @ \ {d},
              !.deviceInfo = updateDeviceState(@, d, DISCONNECTED)]

disconnectDone(c, call, w) == Resolve(c, call, <<>>, Disconnected(call.dev, w))

\* catch: throw "Failed to disconnect device".
disconnectFail(c, call, error, w) == Reject(c, call, error, w)

mockDisconnectDevice(c, call, w) ==
    LET d == call.dev
    IN Resolve(c, call, <<>>,
               [w EXCEPT !.deviceInfo = updateDeviceState(@, d, DISCONNECTED),
                         !.connectedDevices =
                             IF variant = "expo" THEN @ \ {d} ELSE @])

\* ------------------------------------------------------------ the engine
\* What runs once the last await of a call has resolved.
Complete(c, call, w, r, t) ==
    IF mock
    THEN CASE call.op = "scan" -> mockScanForDevices(c, call, w)
           [] call.op = "connect" -> mockConnectToDevice(c, call, w, r)
           [] call.op = "sync" -> mockSyncDevice(c, call, w, r, t)
           [] OTHER -> mockDisconnectDevice(c, call, w)
    ELSE CASE call.op = "scan" -> scanDone(c, call, w)
           [] call.op = "connect" -> connectDone(c, call, w)
           [] call.op = "sync" -> syncDone(c, call, w, t)
           [] OTHER -> disconnectDone(c, call, w)

\* What runs when an await of a call rejects.
Fail(c, call, error, w, t) ==
    CASE call.op = "scan" -> scanFail(c, call, error, w)
      [] call.op = "connect" -> connectFail(c, call, error, w)
      [] call.op = "sync" -> syncFail(c, call, error, w, t)
      [] OTHER -> disconnectFail(c, call, error, w)

\* Run a call from its current position to its next pending await.
Proceed(c, call, w, r, t) ==
    LET n == Normalize(call)
    IN IF Done(n) THEN Complete(c, n, w, r, t) ELSE R(w, n, NoOutcome)

\* ------------------------------------------------------------ the methods
\* Each runs from the call to its first pending await.
scanForDevices(c, w, r, t) ==
    LET call == NewCall("scan", 0, FALSE)
    IN IF mock
       THEN Proceed(c, [call EXCEPT !.pc = 1], w, r, t)
       ELSE IF w.isScanning
       THEN Reject(c, call, "scanInProgress", w)
       ELSE R([w EXCEPT !.isScanning = TRUE], [call EXCEPT !.pc = 1],
              Started(c, call, "none"))

connectToDevice(c, d, autoSync, w, r, t) ==
    LET call == NewCall("connect", d, autoSync)
    IN IF mock
       THEN IF variant # "expo" /\ d \notin DOMAIN w.deviceInfo
            THEN Reject(c, call, "notFound", w)
            ELSE Proceed(c, [call EXCEPT !.pc = 1], w, r, t)
       ELSE IF d \notin DOMAIN w.deviceInfo
       THEN Reject(c, call, "notFound", w)
       ELSE IF d \in w.connectedDevices
       THEN Resolve(c, call, <<>>, w)
       ELSE LET w2 == [w EXCEPT !.deviceInfo = updateDeviceState(@, d, CONNECTING)]
            IN R(w2, [call EXCEPT !.pc = 1],
                 Started(c, call, StateOf(w2.deviceInfo, d)))

syncDevice(c, d, w, r, t) ==
    LET call == NewCall("sync", d, FALSE)
    IN IF mock
       THEN IF variant # "expo" /\ StateOf(w.deviceInfo, d) # CONNECTED
            THEN Reject(c, call, "notConnected", w)
            ELSE Proceed(c, [call EXCEPT !.pc = 1], w, r, t)
       ELSE IF ~syncGuard(d, w)
       THEN Reject(c, call, "notConnected", w)
       ELSE LET w2 == syncEnter(d, w)
            IN R(w2, [call EXCEPT !.pc = 1],
                 Started(c, call, StateOf(w2.deviceInfo, d)))

disconnectDevice(c, d, w, r, t) ==
    LET call == NewCall("disconnect", d, FALSE)
    IN IF mock
       THEN Proceed(c, [call EXCEPT !.pc = 1], w, r, t)
       ELSE IF d \notin w.connectedDevices
       THEN Resolve(c, call, <<>>, w)
       ELSE Proceed(c, [call EXCEPT !.pc = 1], w, r, t)


\* ------------------------------------------------ measurement codec
\* FLAGS of the Glucose Measurement characteristic
TIME_OFFSET_PRESENT == 1
GLUCOSE_PRESENT == 2
IS_MMOL == 4
STATUS_PRESENT == 8
CONTEXT_INFO == 16

MMOL == "mmol/L"

\* flags & mask # 0, for a mask of one bit
FlagSet(flags, mask) == (flags \div mask) % 2 = 1

\* A DataView is the sequence of its bytes. A read that reaches beyond the
\* end of the view throws a RangeError.
Readable(value, byteOffset, size) == byteOffset + size <= Len(value)

getUint8(value, byteOffset) == value[byteOffset + 1]

\* getUint16(byteOffset, true): little-endian
getUint16(value, byteOffset) ==
    value[byteOffset + 1] + 256 * value[byteOffset + 2]

\* A JavaScript number produced by the SFLOAT decoders: NaN, an infinity, or
\* the finite product mantissa * 10^exponent (|mantissa| <= 2048 and
\* -8 <= exponent <= 12, which is always a finite double).
SFloat(kind, mantissa, exponent) ==
    [kind |-> kind, mantissa |-> mantissa, exponent |-> exponent]

NaN == SFloat("NaN", 0, 0)
POSITIVE_INFINITY == SFloat("+Infinity", 0, 0)
NEGATIVE_INFINITY == SFloat("-Infinity", 0, 0)
NotDecoded == SFloat("pending", 0, 0)

\* The exponent nibble read as an unsigned number
sfloatExponent_unsigned(value) == value \div 4096

\* value >> 12 of a 16-bit value, as a signed nibble
sfloatExponent(value) ==
    LET exponent == value \div 4096
    IN IF exponent >= 8 THEN -(15 + 1 - exponent) ELSE exponent

\* value & 0x0fff, as a signed 12-bit number
sfloatMantissa(value) ==
    LET mantissa == value % 4096
    IN IF mantissa >= 2048 THEN -(4095 + 1 - mantissa) ELSE mantissa

\* The special values are looked for in the mantissa alone, whatever the
\* exponent nibble.
getSFLOAT_mantissaOnly(value, unit) ==
    IF value % 4096 = 2047 THEN NaN
    ELSE IF value % 4096 = 2048 THEN NaN
    ELSE IF value % 4096 = 2046 THEN POSITIVE_INFINITY
    ELSE IF value % 4096 = 2050 THEN NEGATIVE_INFINITY
    ELSE IF value % 4096 = 2049 THEN NaN
    ELSE SFloat("finite", sfloatMantissa(value),
                sfloatExponent(value) + (IF unit = MGDL THEN 5 ELSE 3))

getSFLOAT(value, unit) ==
    IF value = 2047 THEN NaN                      \* 0x07ff
    ELSE IF value = 2048 THEN NaN                 \* 0x0800
    ELSE IF value = 2046 THEN POSITIVE_INFINITY   \* 0x07fe
    ELSE IF value = 2050 THEN NEGATIVE_INFINITY   \* 0x0802
    ELSE IF value = 2049 THEN NaN                 \* 0x0801
    ELSE SFloat("finite", sfloatMantissa(value),
                sfloatExponent(value)
                    + (IF unit = MGDL THEN 5 ELSE IF unit = MMOL THEN 3 ELSE 0))

\* The decoder of the web test page: no unit shift
parseSFLOAT(value) ==
    IF value = 2047 \/ value = 2048 \/ value = 2049 THEN NaN
    ELSE IF value = 2046 THEN POSITIVE_INFINITY
    ELSE IF value = 2050 THEN NEGATIVE_INFINITY
    ELSE SFloat("finite", sfloatMantissa(value), sfloatExponent(value))

getReadingTypeFromLocation(location) ==
    IF location = 1 THEN "finger"
    ELSE IF location = 2 THEN "alternate_site_test"
    ELSE IF location = 3 THEN "earlobe"
    ELSE IF location = 4 THEN "control_solution"
    ELSE "not_available"

\* The outcome of a decode: an exception, or the returned value as a
\* sequence of length 0 (null) or 1 (the reading).
Thrown == [threw |-> TRUE, reading |-> << >>]
Returned(reading) == [threw |-> FALSE, reading |-> reading]

\* The reading built from the glucose fields at offset. The timestamp is
\* the tuple of the date fields (all in range in the frames of this model).
glucoseFields(value, flags, offset) ==
    LET unit == IF FlagSet(flags, IS_MMOL) THEN MMOL ELSE MGDL
        seqNum == getUint16(value, 1)
        timestamp == << getUint16(value, 3), getUint8(value, 5),
                        getUint8(value, 6), getUint8(value, 7),
                        getUint8(value, 8), getUint8(value, 9) >>
        location == getUint8(value, offset + 2) % 16
    IN [ id |-> <<"bluetooth", seqNum, timestamp>>,
         value |-> getSFLOAT(getUint16(value, offset), unit),
         unit |-> unit,
         timestamp |-> timestamp,
         readingType |-> getReadingTypeFromLocation(location),
         sequenceNumber |-> seqNum,
         type |-> getUint8(value, offset + 2) \div 16,
         location |-> location,
         status |-> IF FlagSet(flags, STATUS_PRESENT)
                    THEN << getUint16(value, offset + 3) >> ELSE << >>,
         hasContext |-> FlagSet(flags, CONTEXT_INFO) ]

\* The body of the try block of parseGlucoseMeasurement
parseGlucoseMeasurementBody(value) ==
    IF ~Readable(value, 0, 10) THEN Thrown
    ELSE LET flags == getUint8(value, 0)
             timeOffset == FlagSet(flags, TIME_OFFSET_PRESENT)
             offset == IF timeOffset THEN 12 ELSE 10
         IN IF timeOffset /\ ~Readable(value, 10, 2) THEN Thrown
            ELSE IF FlagSet(flags, GLUCOSE_PRESENT)
            THEN IF ~Readable(value, offset, 3) THEN Thrown
                 ELSE IF FlagSet(flags, STATUS_PRESENT)
                         /\ ~Readable(value, offset + 3, 2) THEN Thrown
                 ELSE Returned(<< glucoseFields(value, flags, offset) >>)
            ELSE Returned(<< >>)

\* The decoder without its catch block
parseGlucoseMeasurement_noCatch(value) == parseGlucoseMeasurementBody(value)

\* The decoder that reads the glucose fields whatever the flags say
parseGlucoseMeasurement_anyFlags(value) ==
    IF Readable(value, 0, 13)
    THEN Returned(<< glucoseFields(value, getUint8(value, 0), 10) >>)
    ELSE Returned(<< >>)

\* parseGlucoseMeasurement on the bytes of the DataView: try { body }
\* catch { return null }
parseGlucoseMeasurementView(value) ==
    LET body == parseGlucoseMeasurementBody(value)
    IN IF body.threw THEN Returned(<< >>) ELSE body

\* Bounds of the codec runs
MaxFlags == 31
MaxFrameLen == 17
MaxNotifications == 2
MaxRaw == 65535

\* A full frame: header (flags, sequence number, 2024-05-06 07:08:09) and
\* seven payload bytes, enough for every combination of optional fields.
Frame(flags, seqNum) ==
    << flags, seqNum % 256, seqNum \div 256, 232, 7, 5, 6, 7, 8, 9,
       94, 176, 17, 176, 18, 1, 0 >>

\* The frames a meter may send as its seqNum-th record, whole or cut short
MeasurementBuffers(seqNum) ==
    { SubSeq(Frame(flags, seqNum), 1, n) :
          flags \in 0..MaxFlags, n \in 0..MaxFrameLen }

CodecIdle ==
    [ mode |-> "idle", raw |-> 0, unit |-> MGDL, sfloat |-> NotDecoded,
      plain |-> NotDecoded, value |-> << >>, threw |-> FALSE,
      parsed |-> << >>, prior |-> << >>, readings |-> << >>, received |-> 0 ]

\* ---------------------------------------------------- glucose stream
\* AndroidHealthConnectBridge: real-time streaming from xDrip+ broadcasts
\* and Health Connect polling.  Timestamps are instants 1..MaxStreamTime (an
\* ISO string of toISOString compares as its instant does); 0 stands for
\* undefined.
MaxStreamTime == 3
MaxRecords == 2
MaxDelivered == 4
MaxPolls == 1
MaxStreamEvents == 4

StreamSlots == {1, 2}

NoOptions ==
    [ set |-> FALSE, owner |-> 0, minInterval |-> 0,
      enableXDripStream |-> FALSE, enableLibreLinkStream |-> FALSE ]

\* The options of a startGlucoseStream call; owner names the caller, whose
\* onReading it holds.  minInterval 0 is the option left out.
GlucoseStreamOptions(owner) ==
    { [ set |-> TRUE, owner |-> owner, minInterval |-> m,
        enableXDripStream |-> x, enableLibreLinkStream |-> l ] :
          m \in {0, 2}, x \in BOOLEAN, l \in BOOLEAN }

NoStart == [pc |-> "idle", options |-> NoOptions, pollStart |-> 0]

NoStreamEvent == [op |-> "none", result |-> "none", slot |-> 0, error |-> "none"]

StreamEvent(op, result, slot, error) ==
    [op |-> op, result |-> result, slot |-> slot, error |-> error]

StreamIdle ==
    [ isStreaming |-> FALSE,
      streamOptions |-> NoOptions,
      lastReadingTimestamp |-> 0,
      listeners |-> 0,               \* "xDripGlucoseReading" listeners
      timers |-> {},                 \* active setInterval timers
      streamPollingInterval |-> 0,   \* the timer handle the bridge holds
      starts |-> [c \in StreamSlots |-> NoStart],
      polls |-> {},                  \* startTime of the timer polls in flight
      delivered |-> << >>,           \* the invocations of onReading
      event |-> NoStreamEvent,
      eventsLeft |-> 0 ]

\* this.streamOptions.onReading(reading)
onReading(s, timestamp, source) ==
    [s EXCEPT !.delivered =
        Append(@, [timestamp |-> timestamp, source |-> source,
                   to |-> s.streamOptions.owner])]

\* data is the timestamp of the broadcast, 0 when it carries none
handleXDripReading(s, data) ==
    IF ~s.streamOptions.set THEN s
    ELSE LET timestamp == IF data = 0 THEN MaxStreamTime ELSE data
         IN IF s.lastReadingTimestamp = timestamp THEN s
            ELSE IF /\ s.lastReadingTimestamp # 0
                    /\ s.streamOptions.minInterval # 0
                    /\ timestamp - s.lastReadingTimestamp
                           < s.streamOptions.minInterval
            THEN s
            ELSE onReading([s EXCEPT !.lastReadingTimestamp = timestamp],
                           timestamp, "xDrip+")

\* The loop of pollHealthConnectForNewReadings over response.records
RECURSIVE processRecords(_, _)
processRecords(s, records) ==
    IF records = << >> THEN s
    ELSE LET time == Head(records)
         IN IF s.lastReadingTimestamp # 0 /\ time <= s.lastReadingTimestamp
            THEN processRecords(s, Tail(records))
            ELSE LET marked == [s EXCEPT !.lastReadingTimestamp = time]
                 IN processRecords(
                        IF s.streamOptions.set
                        THEN onReading(marked, time, "LibreLink")
                        ELSE marked,
                        Tail(records))

\* timeRangeFilter.startTime of a poll
pollStartTime(s) == s.lastReadingTimestamp

\* What readRecords may return for a filter starting at startTime: up to
\* MaxRecords records of the range, in ascending order
Responses(startTime) ==
    LET range == (IF startTime = 0 THEN 1 ELSE startTime)..MaxStreamTime
    IN { << >> } \cup { <<t>> : t \in range }
       \cup { p \in range \X range : p[1] < p[2] }

streamSettles(s, c, result, error) ==
    [s EXCEPT !.starts[c] = NoStart,
              !.event = StreamEvent("start", result, c, error)]

\* startGlucoseStream from startHealthConnectPolling on
startHealthConnectPolling(s, c) ==
    IF s.starts[c].options.enableLibreLinkStream
    THEN [s EXCEPT !.timers = @ \cup {c},
                   !.streamPollingInterval = c,
                   !.starts[c].pc = "poll",
                   !.starts[c].pollStart = pollStartTime(s),
                   !.event = NoStreamEvent]
    ELSE streamSettles(s, c, "resolved", "none")

\* startGlucoseStream once the authorization status is known
startSources(s, c) ==
    LET options == s.starts[c].options
        on == [s EXCEPT !.streamOptions = options, !.isStreaming = TRUE]
    IN IF options.enableXDripStream
       THEN [on EXCEPT !.listeners = @ + 1, !.starts[c].pc = "xdrip",
                       !.event = NoStreamEvent]
       ELSE startHealthConnectPolling(on, c)

\* The catch block of startGlucoseStream
startFails(s, c, error) ==
    streamSettles([s EXCEPT !.isStreaming = FALSE], c, "rejected", error)

stopGlucoseStream(s) ==
    IF ~s.isStreaming THEN [s EXCEPT !.event = StreamEvent("stop", "resolved", 0, "none")]
    ELSE [s EXCEPT !.listeners = 0,
                   !.timers = @ \ {s.streamPollingInterval},
                   !.streamPollingInterval = 0,
                   !.isStreaming = FALSE,
                   !.streamOptions = NoOptions,
                   !.lastReadingTimestamp = 0,
                   !.event = StreamEvent("stop", "resolved", 0, "none")]

\* ------------------------------------------------------------ initial state
RealOptions ==
    [enableMockMode |-> FALSE, mockDeviceCount |-> 2, mockReadingCount |-> 2,
     simulateDelays |-> TRUE, mockFailureRate |-> 10]

MockOptions ==
    [enableMockMode : {TRUE}, mockDeviceCount : MockDeviceCounts,
     mockReadingCount : MockReadingCounts, simulateDelays : BOOLEAN,
     mockFailureRate : FailureRates]

Platforms(v, m) ==
    IF m THEN {"mock"}
    ELSE CASE v = "base" -> {"web"}
           [] v = "expo" -> {"expo"}
           [] OTHER -> {"expo", "react-native", "web"}

InitWith(budget) ==
    /\ variant \in {"base", "expo", "cross"}
    /\ mockOptions \in MockOptions \cup {RealOptions}
    /\ platform \in Platforms(variant, mockOptions.enableMockMode)
    /\ deviceInfo = << >>
    /\ connectedDevices = {}
    /\ isScanning = FALSE
    /\ linkUp = {}
    /\ calls = [c \in CallSlots |-> Idle]
    /\ last = NoOutcome
    /\ now = 0
    /\ opsLeft = budget
    /\ codec = CodecIdle
    /\ stream = StreamIdle

Init == InitWith(MaxOps)

\* The same construction with the call budget of the liveness runs
LiveInit == InitWith(MaxLiveOps)

\* ------------------------------------------------------------ actions
Apply(cs, c, res) ==
    /\ deviceInfo' = res.w.deviceInfo
    /\ connectedDevices' = res.w.connectedDevices
    /\ isScanning' = res.w.isScanning
    /\ calls' = [cs EXCEPT ![c] = res.call]
    /\ last' = res.out

\* The event of an invocation: how it settled at once, or that it is
\* pending, with the registry state and lastSync of the device just before.
Invoked(c, d, res) ==
    LET e == IF res.out.op = "none" THEN Started(c, res.call, "none") ELSE res.out
    IN [res EXCEPT !.out = [e EXCEPT !.from = StateOf(deviceInfo, d),
                                     !.fromSync = LastSyncOf(deviceInfo, d)]]

\* A call takes the lowest free slot and n of the calls that may be issued.
\* The clock advances from one call to the next.
Issue(c, n) ==
    /\ opsLeft >= n
    /\ ~InFlight(c)
    /\ \A x \in CallSlots : x < c => InFlight(x)
    /\ opsLeft' = opsLeft - n
    /\ now' = now + 1

\* The caller invokes scanForDevices().
ScanForDevices(c) ==
    /\ Issue(c, 1)
    /\ \E r \in RandomDraws : Apply(calls, c, Invoked(c, 0, scanForDevices(c, Cur, r, now)))
    /\ UNCHANGED <<config, side, linkUp>>

\* The caller invokes connectToDevice(d, {autoSync}).  The syncDevice call
\* an auto-sync makes counts as a call of its own.
ConnectToDevice(c, d, autoSync) ==
    /\ Issue(c, IF autoSync THEN 2 ELSE 1)
    /\ \E r \in RandomDraws :
           Apply(calls, c, Invoked(c, d, connectToDevice(c, d, autoSync, Cur, r, now)))
    /\ UNCHANGED <<config, side, linkUp>>

\* The caller invokes syncDevice(d).
SyncDevice(c, d) ==
    /\ Issue(c, 1)
    /\ \E r \in RandomDraws : Apply(calls, c, Invoked(c, d, syncDevice(c, d, Cur, r, now)))
    /\ UNCHANGED <<config, side, linkUp>>

\* The caller invokes disconnectDevice(d).  Syncs of d still in flight are
\* marked as cut by a disconnect.  gatt.disconnect() takes the link down at
\* once.
DisconnectDevice(c, d) ==
    /\ Issue(c, 1)
    /\ LET cs == [x \in CallSlots |->
                    IF calls[x].op = "sync" /\ calls[x].dev = d
                    THEN [calls[x] EXCEPT !.cut = TRUE] ELSE calls[x]]
       IN \E r \in RandomDraws : Apply(cs, c, Invoked(c, d, disconnectDevice(c, d, Cur, r, now)))
    /\ linkUp' = IF ~mock /\ platform = "web" /\ d \in connectedDevices
                 THEN linkUp \ {d} ELSE linkUp
    /\ UNCHANGED <<config, side>>

\* A transport promise resolves (a best-effort helper returns).
TransportResolves(c) ==
    /\ Awaiting(c, {"transport", "raced", "besteffort"})
    /\ LET call == calls[c]
           step == CurStep(call)
       IN /\ \E id \in (IF step.effect = "found" THEN DeviceIds ELSE {0}),
                 r \in RandomDraws :
                 Apply(calls, c,
                       Proceed(c,
                               [call EXCEPT !.pc = @ + 1,
                                            !.found = IF step.effect = "found"
                                                      THEN <<id>> ELSE @],
                               Cur, r, now))
          /\ linkUp' = CASE step.effect = "linkUp" -> linkUp \cup {call.dev}
                         [] step.effect = "linkDown" -> linkUp \ {call.dev}
                         [] OTHER -> linkUp
    /\ UNCHANGED <<config, side, now, opsLeft>>

\* A transport promise rejects (or the scan's error callback fires).
TransportRejects(c) ==
    /\ Awaiting(c, {"transport", "raced", "window"})
    /\ Apply(calls, c, Fail(c, calls[c], "transport", Cur, now))
    /\ UNCHANGED <<config, side, linkUp, now, opsLeft>>

\* this.timeout(ms) wins the race.
TimeoutWins(c) ==
    /\ Awaiting(c, {"raced"})
    /\ Apply(calls, c, Fail(c, calls[c], "timeout", Cur, now))
    /\ UNCHANGED <<config, side, linkUp, now, opsLeft>>

\* A timer fires: a delay ends, or one round of the wait loop.
TimerFires(c) ==
    /\ Awaiting(c, {"delay", "wait", "window"})
    /\ LET call == calls[c]
           next == IF CurStep(call).kind = "wait"
                   THEN waitRound(call)
                   ELSE [call EXCEPT !.pc = @ + 1]
       IN \E r \in RandomDraws : Apply(calls, c, Proceed(c, next, Cur, r, now))
    /\ UNCHANGED <<config, side, linkUp, now, opsLeft>>

\* The discovery callback of a running scan is called with device id.
\* The Expo manager skips ids already in deviceInfo; the cross-platform
\* manager skips ids already found by this scan.
DeviceFound(c, id) ==
    /\ calls[c].op = "scan"
    /\ Listening(calls[c])
    /\ IF variant = "expo"
       THEN id \notin DOMAIN deviceInfo
       ELSE id \notin Range(calls[c].found)
    /\ calls' = [calls EXCEPT ![c].found = Append(@, id)]
    /\ deviceInfo' = Register(deviceInfo, {id})
    /\ last' = NoOutcome
    /\ UNCHANGED <<config, side, connectedDevices, isScanning, linkUp, now, opsLeft>>

\* handleMeasurement: a measurement notification of device d reaches every
\* handler installed for it.
\* The handler that puts the new reading in front of the buffer
handleMeasurement_prepends(call, value) ==
    IF Len(call.readings) < MaxReadings
    THEN [call EXCEPT !.readings = parseGlucoseMeasurement(value) \o @]
    ELSE call

handleMeasurement(call, value) ==
    IF Len(call.readings) < MaxReadings
    THEN [call EXCEPT !.readings = @ \o parseGlucoseMeasurement(value)]
    ELSE call

MeasurementNotified(d, value) ==
    /\ \E c \in CallSlots :
           /\ calls[c].op = "sync" /\ calls[c].dev = d /\ Listening(calls[c])
           /\ handleMeasurement(calls[c], value) # calls[c]
    /\ calls' = [c \in CallSlots |->
                    IF calls[c].op = "sync" /\ calls[c].dev = d /\ Listening(calls[c])
                    THEN handleMeasurement(calls[c], value) ELSE calls[c]]
    /\ last' = NoOutcome
    /\ UNCHANGED <<config, side, deviceInfo, connectedDevices, isScanning, linkUp, now, opsLeft>>

\* handleRACP: only the Web Bluetooth manager listens to the RACP
\* characteristic; it keeps the count of a 0x05 response and ignores the
\* rest.  racpDone notes that the success response has arrived.
handleRACP(call, response) ==
    [call EXCEPT
        !.recordCount = IF response.opCode = 5 THEN response.numberOfRecords ELSE @,
        !.racpDone = @ \/ (response.opCode = 6 /\ response.requestOpCode = 1
                           /\ response.responseCode = 1)]

RacpNotified(d, response) ==
    /\ variant = "base"
    /\ \E c \in CallSlots :
           /\ calls[c].op = "sync" /\ calls[c].dev = d /\ Listening(calls[c])
           /\ handleRACP(calls[c], response) # calls[c]
    /\ calls' = [c \in CallSlots |->
                    IF calls[c].op = "sync" /\ calls[c].dev = d /\ Listening(calls[c])
                    THEN handleRACP(calls[c], response) ELSE calls[c]]
    /\ last' = NoOutcome
    /\ UNCHANGED <<config, side, deviceInfo, connectedDevices, isScanning, linkUp, now, opsLeft>>

\* The radio link of a device drops (out of range, battery).  Only the Web
\* Bluetooth manager reads the link state (device.gatt.connected).
LinkDrop(d) ==
    /\ ~mock /\ variant = "base"
    /\ d \in linkUp
    /\ linkUp' = linkUp \ {d}
    /\ last' = NoOutcome
    /\ UNCHANGED <<config, side, deviceInfo, connectedDevices, isScanning, calls, now, opsLeft>>

Next ==
    \/ \E c \in CallSlots : ScanForDevices(c)
    \/ \E c \in CallSlots, d \in DeviceIds, a \in BOOLEAN : ConnectToDevice(c, d, a)
    \/ \E c \in CallSlots, d \in DeviceIds : SyncDevice(c, d)
    \/ \E c \in CallSlots, d \in DeviceIds : DisconnectDevice(c, d)
    \/ \E c \in CallSlots : TransportResolves(c)
    \/ \E c \in CallSlots : TransportRejects(c)
    \/ \E c \in CallSlots : TimeoutWins(c)
    \/ \E c \in CallSlots : TimerFires(c)
    \/ \E c \in CallSlots, d \in DeviceIds : DeviceFound(c, d)
    \/ \E d \in DeviceIds, v \in MeasurementNotifications : MeasurementNotified(d, v)
    \/ \E d \in DeviceIds, v \in RacpNotifications : RacpNotified(d, v)
    \/ \E d \in DeviceIds : LinkDrop(d)

Spec == Init /\ [][Next]_vars


\* Timers fire and the transport answers every request (the BLE stack
\* bounds each ATT transaction).
Fairness ==
    \A c \in CallSlots :
        /\ WF_vars(TimerFires(c))
        /\ WF_vars(TransportResolves(c) \/ TransportRejects(c) \/ TimeoutWins(c))

FairSpec == LiveInit /\ [][Next]_vars /\ Fairness

\* Timers fire, but the transport may stay silent: a request to a device
\* that does not answer stays pending.
TimerFairness ==
    \A c \in CallSlots : WF_vars(TimerFires(c)) /\ WF_vars(TimeoutWins(c))

TimerFairSpec == LiveInit /\ [][Next]_vars /\ TimerFairness

\* ---------------------------------------------------- codec on its own
\* The decoders applied to every raw 16-bit value and unit, and the
\* measurement handler of one sync receiving frames, with an idle manager.
CodecInit ==
    /\ variant = "base"
    /\ mockOptions = RealOptions
    /\ platform \in Platforms("base", FALSE)
    /\ deviceInfo = << >>
    /\ connectedDevices = {}
    /\ isScanning = FALSE
    /\ linkUp = {}
    /\ calls = [c \in CallSlots |-> Idle]
    /\ last = NoOutcome
    /\ now = 0
    /\ opsLeft = 0
    /\ codec \in { [CodecIdle EXCEPT !.mode = "sfloat", !.raw = v, !.unit = u] :
                       v \in 0..MaxRaw, u \in {MGDL, MMOL} }
                 \cup { [CodecIdle EXCEPT !.mode = "sync"] }
    /\ stream = StreamIdle

manager == <<config, deviceInfo, connectedDevices, isScanning, linkUp,
             calls, last, now, opsLeft>>

DecodeSFLOAT ==
    /\ codec.mode = "sfloat"
    /\ codec.sfloat = NotDecoded
    /\ codec' = [codec EXCEPT !.sfloat = getSFLOAT(codec.raw, codec.unit),
                              !.plain = parseSFLOAT(codec.raw)]
    /\ UNCHANGED <<manager, stream>>

\* characteristicvaluechanged of the Glucose Measurement characteristic
\* during a sync: handleMeasurement
GlucoseMeasurementChanged(value) ==
    /\ codec.mode = "sync"
    /\ codec.received < MaxNotifications
    /\ LET reading == parseGlucoseMeasurementView(value)
       IN codec' = [codec EXCEPT
                        !.value = value,
                        !.threw = reading.threw,
                        !.parsed = reading.reading,
                        !.prior = codec.readings,
                        !.readings = IF reading.threw THEN @
                                     ELSE @ \o reading.reading,
                        !.received = @ + 1]
    /\ UNCHANGED <<manager, stream>>

CodecNext ==
    \/ DecodeSFLOAT
    \/ \E value \in MeasurementBuffers(codec.received + 1) :
           GlucoseMeasurementChanged(value)

CodecSpec == CodecInit /\ [][CodecNext]_vars

\* ------------------------------------------------- stream on its own
StreamInit ==
    /\ variant = "base"
    /\ mockOptions = RealOptions
    /\ platform \in Platforms("base", FALSE)
    /\ deviceInfo = << >>
    /\ connectedDevices = {}
    /\ isScanning = FALSE
    /\ linkUp = {}
    /\ calls = [c \in CallSlots |-> Idle]
    /\ last = NoOutcome
    /\ now = 0
    /\ opsLeft = 0
    /\ codec = CodecIdle
    /\ stream = [StreamIdle EXCEPT !.eventsLeft = MaxStreamEvents]

StreamStep(s) ==
    /\ Len(s.delivered) <= MaxDelivered
    /\ stream' = s
    /\ UNCHANGED <<manager, codec>>

Spend(s) == [s EXCEPT !.eventsLeft = @ - 1]

StartGlucoseStream(c, options) ==
    /\ stream.eventsLeft > 0
    /\ stream.starts[c].pc = "idle"
    /\ StreamStep(
           IF stream.isStreaming
           THEN [Spend(stream) EXCEPT
                    !.event = StreamEvent("start", "rejected", c, "alreadyActive")]
           ELSE [Spend(stream) EXCEPT
                    !.starts[c] = [pc |-> "auth", options |-> options, pollStart |-> 0],
                    !.event = NoStreamEvent])

\* initialize and getAuthorizationStatus answer
AuthorizationResolves(c, authorized) ==
    /\ stream.starts[c].pc = "auth"
    /\ StreamStep(IF authorized THEN startSources(stream, c)
                  ELSE streamSettles(stream, c, "rejected", "permission"))

\* NativeModules.XDripReceiver.startListening answers
XDripListeningResolves(c) ==
    /\ stream.starts[c].pc = "xdrip"
    /\ StreamStep(startHealthConnectPolling(stream, c))

XDripListeningRejects(c) ==
    /\ stream.starts[c].pc = "xdrip"
    /\ StreamStep(startFails(stream, c, "xdrip"))

\* The initial poll of startHealthConnectPolling answers
InitialPollReturns(c, records) ==
    /\ stream.starts[c].pc = "poll"
    /\ records \in Responses(stream.starts[c].pollStart)
    /\ StreamStep(streamSettles(processRecords(stream, records), c,
                                "resolved", "none"))

InitialPollFails(c) ==
    /\ stream.starts[c].pc = "poll"
    /\ StreamStep(startFails(stream, c, "poll"))

StopGlucoseStream ==
    /\ stream.eventsLeft > 0
    /\ StreamStep(stopGlucoseStream(Spend(stream)))

\* An "xDripGlucoseReading" event: every registered listener runs
\* handleXDripReading
XDripBroadcast(data) ==
    /\ stream.eventsLeft > 0
    /\ stream.listeners > 0
    /\ LET once == handleXDripReading(Spend(stream), data)
       IN StreamStep([(IF stream.listeners > 1
                       THEN handleXDripReading(once, data) ELSE once)
                         EXCEPT !.event = NoStreamEvent])

\* A setInterval timer fires: pollHealthConnectForNewReadings up to its
\* await of readRecords
PollTimerFires(id) ==
    /\ stream.eventsLeft > 0
    /\ id \in stream.timers
    /\ Cardinality(stream.polls) < MaxPolls
    /\ StreamStep([Spend(stream) EXCEPT !.polls = @ \cup {pollStartTime(stream)},
                                        !.event = NoStreamEvent])

ReadRecordsReturns(startTime, records) ==
    /\ startTime \in stream.polls
    /\ records \in Responses(startTime)
    /\ StreamStep([processRecords([stream EXCEPT !.polls = @ \ {startTime}],
                                  records)
                      EXCEPT !.event = NoStreamEvent])

\* readRecords rejects: the timer callback reports it to onError
ReadRecordsFails(startTime) ==
    /\ startTime \in stream.polls
    /\ StreamStep([stream EXCEPT !.polls = @ \ {startTime},
                                 !.event = StreamEvent("poll", "rejected", 0, "poll")])

StreamNext ==
    \/ \E c \in StreamSlots : \E options \in GlucoseStreamOptions(c) :
           StartGlucoseStream(c, options)
    \/ \E c \in StreamSlots : \E authorized \in BOOLEAN :
           AuthorizationResolves(c, authorized)
    \/ \E c \in StreamSlots : XDripListeningResolves(c)
    \/ \E c \in StreamSlots : XDripListeningRejects(c)
    \/ \E c \in StreamSlots : \E records \in Responses(0) :
           InitialPollReturns(c, records)
    \/ \E c \in StreamSlots : InitialPollFails(c)
    \/ StopGlucoseStream
    \/ \E data \in 0..MaxStreamTime : XDripBroadcast(data)
    \/ \E id \in StreamSlots : PollTimerFires(id)
    \/ \E startTime \in 0..MaxStreamTime : \E records \in Responses(0) :
           ReadRecordsReturns(startTime, records)
    \/ \E startTime \in 0..MaxStreamTime : ReadRecordsFails(startTime)

StreamSpec == StreamInit /\ [][StreamNext]_vars

\* ====================================================================
\* Claims
\* ====================================================================
Settled == last.result \in {"resolved", "rejected"}
RealSync == ~mock /\ last.phase = "sync" /\ Settled

\* C1: BluetoothGlucoseMeterManager.syncDevice(id) starts a sync only when
\* the registry state of the device is CONNECTED; from any other state, or
\* for an unknown id, it rejects with "not connected" and leaves the state
\* and lastSync as they were.
C1_SyncOnlyWhenConnected ==
    (variant = "base" /\ last.op = "sync" /\ last.from # "none"
       /\ last.from # CONNECTED)
    => /\ last.result = "rejected"
       /\ last.error = "notConnected"
       /\ last.state = last.from
       /\ last.lastSync = last.fromSync

\* C2: in real mode a connectToDevice that passed its guards issued its
\* first transport call with the state already CONNECTING, and settles
\* either resolved with the state CONNECTED or rejected, with the transport
\* or timeout error (or the error of its auto-sync), and the state ERROR.
C2_ConnectEndsConnectedOrError ==
    (~mock /\ last.op = "connect" /\ last.started)
    => CASE last.result = "started" -> last.issuedIn = CONNECTING
         [] last.result = "resolved" -> last.state = CONNECTED
         [] OTHER -> /\ last.result = "rejected"
                     /\ last.state = ERROR
                     /\ \/ last.error \in {"transport", "timeout"}
                        \/ last.autoSync /\ last.error = "notConnected"

C2_Witness ==
    /\ ~mock /\ variant = "base"
    /\ last.op = "connect" /\ last.started
    /\ last.result = "rejected" /\ last.error = "timeout"
    /\ last.state = ERROR

\* C3: a syncDevice call in which a transport operation failed rejects,
\* returns no readings, and leaves the device in ERROR, in all three
\* managers.
C3_SyncFailureEndsInError ==
    (RealSync /\ last.error = "transport")
    => /\ last.result = "rejected"
       /\ last.readings = << >>
       /\ last.state = ERROR

\* C4: disconnectDevice(id) resolves true from every state of a known
\* device and leaves its state DISCONNECTED.
C4_DisconnectEndsDisconnected ==
    (variant = "base" /\ last.op = "disconnect" /\ Settled
       /\ last.dev \in DOMAIN deviceInfo)
    => /\ last.result = "resolved"
       /\ last.state = DISCONNECTED

\* C5: every syncDevice call in flight eventually settles; one whose wait
\* ended on the overall sync timeout and whose transport operations all
\* succeeded resolves with the readings collected, with the state CONNECTED.
C5_TimeoutEndsInSuccess ==
    (last.op = "sync" /\ last.timedOut /\ Settled /\ last.error # "transport")
    => /\ last.result = "resolved"
       /\ last.state = CONNECTED

C6_RacpSuccessEndsSync ==
    (RealSync /\ last.racpDone) => ~last.timedOut

\* C7: the list a successful syncDevice returns is in chronological order:
\* timestamps never decrease along it.
C7_ReadingsChronological ==
    (last.op = "sync" /\ last.result = "resolved")
    => \A i \in 1..(Len(last.readings) - 1) :
           last.readings[i].timestamp <= last.readings[i + 1].timestamp

\* C8: for one device id at most one connectToDevice or syncDevice drives
\* the transport at a time.
C8_OneSessionPerDevice ==
    ~mock =>
        \A d \in DeviceIds :
            Cardinality({c \in CallSlots :
                            /\ calls[c].op \in {"connect", "sync"}
                            /\ calls[c].dev = d}) <= 1

\* C9: a BluetoothGlucoseMeterManager.syncDevice call during which
\* disconnectDevice was called for the same device rejects.
C9_DisconnectAbortsSync ==
    (variant = "base" /\ last.op = "sync" /\ Settled /\ last.cut)
    => last.result = "rejected"

\* C10: at most one scanForDevices call is in progress on a
\* BluetoothGlucoseMeterManager, in mock mode as in real mode.
C10_OneScanAtATime ==
    variant = "base" =>
    Cardinality({c \in CallSlots : calls[c].op = "scan"}) <= 1

\* C11: BluetoothGlucoseMeterManager.connectToDevice on a device that is already CONNECTED cannot fail
\* and, when it resolves, has left the state, the connected devices and
\* lastSync as they were, in real and in mock mode.
C11_ConnectWhenConnectedIsNoOp ==
    (variant = "base" /\ last.op = "connect" /\ last.from = CONNECTED)
    => /\ last.result # "rejected"
       /\ last.result = "resolved"
          => /\ last.state = CONNECTED
             /\ last.lastSync = last.fromSync

\* C12: in each manager, a real-mode syncDevice call that resolves leaves lastSync of its device
\* defined, and one that rejects leaves lastSync as it was: lastSync is
\* defined if and only if a sync of the device has completed successfully.
C12_LastSyncIffSynced ==
    [][ (/\ ~mock
         /\ last'.op = "sync"
         /\ last'.result \in {"resolved", "rejected"}
         /\ last'.dev \in DOMAIN deviceInfo')
        => IF last'.result = "resolved"
           THEN LastSyncOf(deviceInfo', last'.dev) # {}
           ELSE LastSyncOf(deviceInfo', last'.dev)
                    = LastSyncOf(deviceInfo, last'.dev) ]_vars

\* C13: when a BluetoothGlucoseMeterManager.syncDevice call resolves, the
\* device is CONNECTED, so getConnectedDevices() includes it, and its
\* lastSync is defined and not later than the current time.
C13_SyncedDeviceIsListed ==
    (variant = "base" /\ last.op = "sync" /\ last.result = "resolved")
    => /\ StateOf(deviceInfo, last.dev) = CONNECTED
       /\ last.dev \in getConnectedDevices
       /\ LastSyncOf(deviceInfo, last.dev) # {}
       /\ \A t \in LastSyncOf(deviceInfo, last.dev) : t <= now

\* C14: no device is held in the connected-session map while its registry
\* record says DISCONNECTED.
C14_SessionAgreesWithRegistry ==
    \A d \in connectedDevices : StateOf(deviceInfo, d) # DISCONNECTED

\* C15: within the result of one BluetoothGlucoseMeterManager.syncDevice
\* call no two readings have the same id.
C15_ReadingIdsUnique ==
    (variant = "base" /\ last.op = "sync" /\ last.result = "resolved")
    => \A i, j \in DOMAIN last.readings :
           i # j => last.readings[i].id # last.readings[j].id

\* C16: connectToDevice(id) for an id that is not in the registry rejects
\* with a device-not-found error and adds nothing to the registry or to the
\* connected devices, in every manager, in mock and in real mode.
C16_ConnectUnknownRejects ==
    (last.op = "connect" /\ last.from = "absent" /\ Settled)
    => /\ last.result = "rejected"
       /\ last.error = "notFound"
       /\ last.dev \notin DOMAIN deviceInfo
       /\ last.dev \notin connectedDevices

\* C17: in mock mode with mockFailureRate 0 and mockReadingCount N, a
\* BluetoothGlucoseMeterManager.syncDevice that resolves returns exactly N
\* readings, with strictly increasing timestamps and pairwise distinct ids,
\* each in mg/dL, within [70, 300] and carrying the id of the synced device.
C17_MockSyncReturnsNReadings ==
    (/\ variant = "base" /\ mock /\ mockOptions.mockFailureRate = 0
     /\ last.op = "sync" /\ last.result = "resolved")
    => LET rs == last.readings
       IN /\ Len(rs) = mockOptions.mockReadingCount
          /\ \A i \in 1..(Len(rs) - 1) : rs[i].timestamp < rs[i + 1].timestamp
          /\ \A i, j \in DOMAIN rs : i # j => rs[i].id # rs[j].id
          /\ \A i \in DOMAIN rs :
                /\ rs[i].unit = MGDL
                /\ rs[i].value >= 70 /\ rs[i].value <= 300
                /\ rs[i].deviceId = last.dev

\* C18: in mock mode with mockFailureRate 1.0 every connectToDevice call
\* rejects, and after the rejection the device is DISCONNECTED (never
\* CONNECTING or CONNECTED) and not among the connected devices.
C18_MockConnectFailsClean ==
    (mock /\ mockOptions.mockFailureRate = 100
       /\ last.op = "connect" /\ Settled)
    => /\ last.result = "rejected"
       /\ StateOf(deviceInfo, last.dev) \in {DISCONNECTED, "absent"}
       /\ last.dev \notin connectedDevices
       /\ last.dev \notin getConnectedDevices

C18_Witness ==
    /\ mock /\ mockOptions.mockFailureRate = 100
    /\ last.op = "connect" /\ last.result = "rejected"
    /\ last.error = "mockFailed"
    /\ StateOf(deviceInfo, last.dev) = DISCONNECTED

\* C19: in mock mode with mockDeviceCount N, a
\* BluetoothGlucoseMeterManager.scanForDevices returns exactly N devices and
\* registers exactly those, with pairwise distinct ids, each DISCONNECTED,
\* and with signal strength strictly decreasing along the list.
C19_MockScanReturnsNDevices ==
    (variant = "base" /\ mock /\ last.op = "scan" /\ last.result = "resolved")
    => LET ds == last.found
       IN /\ Len(ds) = mockOptions.mockDeviceCount
          /\ DOMAIN deviceInfo = Range(ds)
          /\ \A i, j \in DOMAIN ds : i # j => ds[i] # ds[j]
          /\ \A i \in DOMAIN ds : StateOf(deviceInfo, ds[i]) = DISCONNECTED
          /\ \A i \in 1..(Len(ds) - 1) : mockRssi(ds[i]) > mockRssi(ds[i + 1])

\* The results a mock connectToDevice(d) can have in the current state, and
\* the value sequences a mock syncDevice(d) can return in it.
MockConnectResults(d) ==
    { mockConnectToDevice(1, NewCall("connect", d, FALSE), Cur, r).out.result :
        r \in RandomDraws }

MockSyncValues(d) ==
    { LET rs == mockSyncDevice(1, NewCall("sync", d, FALSE), Cur, r, now).out.readings
      IN [i \in DOMAIN rs |-> rs[i].value] : r \in RandomDraws }

\* C20: the mock transport is deterministic: in one state of a
\* BluetoothGlucoseMeterManager (same mock options, same calls so far), a
\* connectToDevice has one possible result and a syncDevice one possible
\* sequence of reading values.
C20_MockIsDeterministic ==
    (variant = "base" /\ mock)
    => \A d \in DOMAIN deviceInfo :
           /\ Cardinality(MockConnectResults(d)) <= 1
           /\ StateOf(deviceInfo, d) = CONNECTED
              => Cardinality(MockSyncValues(d)) <= 1

\* C21: in real mode a scanForDevices call whose scan timeout has elapsed
\* resolves with the devices found so far: it never rejects with the
\* timeout as its error.
C21_ScanTimeoutResolves ==
    (~mock /\ last.op = "scan" /\ Settled /\ last.error = "timeout")
    => last.result = "resolved"

\* C22: every real-mode connectToDevice call settles, also when the device
\* or the transport never answers: the connection timeout ends it.
C22_ConnectSettles ==
    \A c \in CallSlots :
        (~mock /\ variant = "base" /\ calls[c].op = "connect")
            ~> (calls[c].op # "connect")

\* The length the flags of a frame announce: the header, the time offset,
\* the glucose fields and the sensor status
AnnouncedLength(flags) ==
    10 + (IF FlagSet(flags, TIME_OFFSET_PRESENT) THEN 2 ELSE 0)
       + (IF ~FlagSet(flags, GLUCOSE_PRESENT) THEN 0
          ELSE IF FlagSet(flags, STATUS_PRESENT) THEN 5 ELSE 3)

\* An empty buffer, or one shorter than its flags announce
Malformed(value) ==
    Len(value) < 10 \/ Len(value) < AnnouncedLength(value[1])

Notified == codec.mode = "sync" /\ codec.received > 0

\* C23: parseGlucoseMeasurement never throws; it returns null for every
\* truncated or malformed buffer, and a null decode during a sync skips
\* only that notification: the records collected before it are kept.
C23_ParseNeverThrows ==
    Notified =>
        /\ ~codec.threw
        /\ Malformed(codec.value) => codec.parsed = << >>
        /\ codec.readings = codec.prior \o codec.parsed

\* A truncated second frame arrives after a good one, which is kept
C23_Witness ==
    /\ Notified
    /\ codec.received = 2
    /\ Len(codec.value) >= 10 /\ Malformed(codec.value)
    /\ codec.parsed = << >>
    /\ Len(codec.readings) = 1 /\ codec.readings = codec.prior

\* C24: parseGlucoseMeasurement returns null for every buffer whose flags
\* bit 1 (glucose concentration present) is unset, whatever the other flag
\* bits, the length and the other bytes.
C24_NoGlucoseBitIsNull ==
    (Notified /\ Len(codec.value) > 0
        /\ ~FlagSet(codec.value[1], GLUCOSE_PRESENT))
    => codec.parsed = << >>

\* A whole frame with every flag but bit 1 set
C24_Witness ==
    /\ Notified
    /\ Len(codec.value) = MaxFrameLen
    /\ codec.value[1] = 29
    /\ codec.parsed = << >>

ReservedCodes == {2046, 2047, 2048, 2049, 2050}

Decoded == codec.mode = "sfloat" /\ codec.sfloat # NotDecoded

\* C25: getSFLOAT (and parseSFLOAT of the test page) map 0x07FF, 0x0800 and
\* 0x0801 to NaN, 0x07FE to +Infinity and 0x0802 to -Infinity for both
\* units, and every other raw 16-bit value to a finite number.
C25_ReservedCodesExact ==
    Decoded =>
        /\ codec.raw \in {2047, 2048, 2049}
               => codec.sfloat = NaN /\ codec.plain = NaN
        /\ codec.raw = 2046 => /\ codec.sfloat = POSITIVE_INFINITY
                               /\ codec.plain = POSITIVE_INFINITY
        /\ codec.raw = 2050 => /\ codec.sfloat = NEGATIVE_INFINITY
                               /\ codec.plain = NEGATIVE_INFINITY
        /\ codec.raw \notin ReservedCodes
               => codec.sfloat.kind = "finite" /\ codec.plain.kind = "finite"

\* 0x17FF in mmol/L: a reserved mantissa under exponent 1 is a finite number
C25_Witness ==
    /\ Decoded
    /\ codec.raw = 6143 /\ codec.unit = MMOL
    /\ codec.sfloat = SFloat("finite", 2047, 4)

\* A step of a connectToDevice, syncDevice or disconnectDevice call on
\* device d in slot c: the call itself, or one of its continuations
StepOf(c, d) ==
    \/ \E autoSync \in BOOLEAN : ConnectToDevice(c, d, autoSync)
    \/ SyncDevice(c, d)
    \/ DisconnectDevice(c, d)
    \/ /\ calls[c].op \in {"connect", "sync", "disconnect"}
       /\ calls[c].dev = d
       /\ \/ TransportResolves(c)
          \/ TransportRejects(c)
          \/ TimeoutWins(c)
          \/ TimerFires(c)

\* C26: a step of connectToDevice, syncDevice or disconnectDevice on device
\* a leaves the registry record of every other device b as it was, also
\* while calls on b are in flight.
C26_OtherRecordsUntouched ==
    [][\A c \in CallSlots : \A a, b \in DeviceIds :
           (a # b /\ b \in DOMAIN deviceInfo /\ StepOf(c, a))
           => (b \in DOMAIN deviceInfo' /\ deviceInfo'[b] = deviceInfo[b])]_vars

\* A sync of device 1 has settled while a call on device 2, whose record
\* is not in its initial state, is in flight
C26_Witness ==
    /\ last.op = "sync" /\ last.dev = 1 /\ Settled
    /\ 2 \in DOMAIN deviceInfo
    /\ deviceInfo[2] # NewDevice
    /\ \E c \in CallSlots : calls[c].op # "idle" /\ calls[c].dev = 2

\* C27: while a glucose stream is active, onReading is never invoked twice
\* with readings of the same timestamp, whichever sources they come from.
C27_NoDuplicateTimestamps ==
    \A i, j \in 1..Len(stream.delivered) :
        (i # j /\ stream.delivered[i].to = stream.delivered[j].to)
        => stream.delivered[i].timestamp # stream.delivered[j].timestamp

\* The transitions of the connection state machine
Transition(from, to) ==
    \/ to = from
    \/ to = DISCONNECTED
    \/ to = CONNECTING /\ from \in {DISCONNECTED, ERROR}
    \/ to = CONNECTED /\ from \in {CONNECTING, SYNCING}
    \/ to = SYNCING /\ from = CONNECTED
    \/ to = ERROR /\ from \in {CONNECTING, SYNCING}

\* C28: the registry state of a device changes only along the transitions
\* of the connection state machine, in mock and in real mode.
C28_StateMachineTransitions ==
    [][\A d \in (DOMAIN deviceInfo) \cap (DOMAIN deviceInfo') :
           variant = "base" =>
           Transition(deviceInfo[d].connectionState,
                      deviceInfo'[d].connectionState)]_vars

\* C29: a connectToDevice call for a device that a failed connect or sync
\* left in ERROR is accepted, and when it resolves the device is CONNECTED.
C29_ErrorIsNotSticky ==
    (variant = "base" /\ last.op = "connect" /\ last.from = ERROR)
    => /\ last.result # "rejected"
       /\ last.result = "resolved" => last.state = CONNECTED

\* C30: in the Web Bluetooth manager, the reading buffer of a syncDevice
\* call starts empty, grows only by the measurement notifications of the
\* call's device that arrive while its handler is registered, each decoded
\* reading appended once at the end, and is what the call resolves with.
C30_BufferPerCall ==
    [][\A c \in CallSlots :
        LET before == calls[c]
            after == calls'[c]
            notified == { value \in MeasurementNotifications :
                              MeasurementNotified(before.dev, value) }
        IN (variant = "base" /\ ~mock) =>
           /\ (before.op # "sync" /\ after.op = "sync")
                  => after.readings = << >>
           /\ (before.op = "sync" /\ after.op = "sync")
                  => IF Listening(before) /\ notified # {}
                        /\ Len(before.readings) < MaxReadings
                     THEN \A value \in notified :
                              after.readings = before.readings
                                  \o parseGlucoseMeasurement(value)
                     ELSE after.readings = before.readings
           /\ (before.op = "sync" /\ before.outer = "none"
                   /\ last'.slot = c /\ last'.op = "sync"
                   /\ last'.result = "resolved")
                  => last'.readings = before.readings]_vars

\* A real sync of the Web Bluetooth manager has resolved with two readings
C30_Witness ==
    /\ variant = "base" /\ ~mock
    /\ last.op = "sync" /\ last.result = "resolved"
    /\ Len(last.readings) = 2
    /\ last.readings[1].sequenceNumber # last.readings[2].sequenceNumber

\* The await of the RACP write "report stored records, all records"
RacpWrite(step) ==
    step.name \in {"write(reportStored)", "writeCharacteristic", "writeWithResponse"}

\* C31: in every real syncDevice execution the measurement handler is in
\* place when the RACP command "report stored records" is written, so a
\* record notification the command triggers is observed.
C31_HandlerBeforeRacpWrite ==
    \A c \in CallSlots :
        (~mock /\ calls[c].op = "sync" /\ ~Done(calls[c])
            /\ RacpWrite(CurStep(calls[c])))
        => Listening(calls[c])

\* A record arrived while the write of the command was still pending
C31_Witness ==
    \E c \in CallSlots :
        /\ ~mock /\ variant = "base"
        /\ calls[c].op = "sync" /\ ~Done(calls[c])
        /\ RacpWrite(CurStep(calls[c]))
        /\ Len(calls[c].readings) = 1

\* C32: when a real syncDevice call of the Web Bluetooth manager settles,
\* resolved or rejected, the handlers it installed have been removed.
C32_HandlersRemovedAtSettle ==
    (RealSync /\ last.op = "sync" /\ variant = "base") => ~last.handlers

\* C33: in the Web Bluetooth manager, once disconnectDevice(id) has resolved
\* and left the device DISCONNECTED, a step that is not a new
\* connectToDevice(id) call leaves it DISCONNECTED: a connect or sync of id
\* that was in flight does not change the state when it completes.
C33_StaysDisconnected ==
    [][(/\ variant = "base"
        /\ last.op = "disconnect" /\ last.result = "resolved"
        /\ StateOf(deviceInfo, last.dev) = DISCONNECTED
        /\ ~ \E c \in CallSlots : \E autoSync \in BOOLEAN :
                 ConnectToDevice(c, last.dev, autoSync))
       => StateOf(deviceInfo', last.dev) = DISCONNECTED]_vars

\* A step of a scanForDevices call: the call, a continuation or a discovery
ScanStep ==
    \E c \in CallSlots :
        \/ ScanForDevices(c)
        \/ \E id \in DeviceIds : DeviceFound(c, id)
        \/ /\ calls[c].op = "scan"
           /\ \/ TransportResolves(c)
              \/ TransportRejects(c)
              \/ TimeoutWins(c)
              \/ TimerFires(c)

\* C34: in the Web Bluetooth manager no step removes a registry record, and
\* a scan that rediscovers a known id leaves its record, with its
\* connection state and lastSync, as it was.
C34_RecordsNeverReplaced ==
    [][variant = "base" =>
       \A d \in DOMAIN deviceInfo :
           /\ d \in DOMAIN deviceInfo'
           /\ ScanStep => deviceInfo'[d] = deviceInfo[d]]_vars

\* C35: the three managers agree in mock mode with mockFailureRate 0.  The
\* Web Bluetooth manager leaves lastSync defined after every syncDevice that
\* resolves; agreement requires the same of the other two.
C35_VariantsAgree ==
    (mock /\ mockOptions.mockFailureRate = 0
        /\ last.op = "sync" /\ last.result = "resolved")
    => last.lastSync # {}

\* The number a field of the given width stands for in two's complement
TwosComplement(field, width) ==
    IF field >= 2 ^ (width - 1) THEN field - 2 ^ width ELSE field

\* C36: for every raw 16-bit value that is not a reserved code, getSFLOAT
\* reads the top 4 bits as a two's-complement exponent e in -8..7 and the
\* low 12 bits as a two's-complement mantissa m in -2048..2047, and returns
\* m * 10^(e + 5) for mg/dL and m * 10^(e + 3) for mmol/L.
C36_SfloatDecoding ==
    (Decoded /\ codec.raw \notin ReservedCodes) =>
        LET e == TwosComplement(codec.raw \div 4096, 4)
            m == TwosComplement(codec.raw % 4096, 12)
        IN /\ e \in -8..7
           /\ m \in -2048..2047
           /\ codec.sfloat =
                  SFloat("finite", m, e + (IF codec.unit = MGDL THEN 5 ELSE 3))

\* 0xFFFF in mg/dL: exponent -1 and mantissa -1 give -1 * 10^4
C36_Witness ==
    /\ Decoded
    /\ codec.raw = 65535 /\ codec.unit = MGDL
    /\ codec.sfloat = SFloat("finite", -1, 4)

\* C37: while a stream with minInterval set is active, two readings
\* delivered one after the other to its onReading have timestamps at least
\* minInterval apart, whichever source they come from.
C37_MinIntervalBetweenReadings ==
    (stream.isStreaming /\ stream.streamOptions.set
        /\ stream.streamOptions.minInterval # 0)
    => \A i \in 1..(Len(stream.delivered) - 1) :
           LET earlier == stream.delivered[i]
               later == stream.delivered[i + 1]
               apart == IF later.timestamp >= earlier.timestamp
                        THEN later.timestamp - earlier.timestamp
                        ELSE earlier.timestamp - later.timestamp
           IN (earlier.to = stream.streamOptions.owner
                   /\ later.to = stream.streamOptions.owner)
              => apart >= stream.streamOptions.minInterval

\* C38: when startGlucoseStream rejects after it began starting its
\* sources, no xDrip listener is registered, no polling timer is active and
\* isStreaming is false.
C38_FailedStartLeavesNothing ==
    (stream.event.op = "start" /\ stream.event.result = "rejected"
        /\ stream.event.error \in {"xdrip", "poll"})
    => /\ stream.listeners = 0
       /\ stream.timers = {}
       /\ ~stream.isStreaming

\* C39: of two startGlucoseStream calls that overlap at most one is
\* accepted and starts sources; the other rejects with 'Glucose streaming
\* is already active'.
C39_OneStreamAtATime ==
    Cardinality({c \in StreamSlots : stream.starts[c].pc \in {"xdrip", "poll"}}) <= 1

\* C40: once stopGlucoseStream has resolved, onReading is not invoked
\* again: the step that follows the resolution of a stop delivers nothing,
\* unless it is a new startGlucoseStream call.
C40_NoReadingAfterStop ==
    [][(stream.event.op = "stop" /\ stream.event.result = "resolved")
       => stream'.delivered = stream.delivered]_vars

====
